---- MODULE Spec2Model ----
(***************************************************************************)
(* Model of the Observer class of observe-nodejs (observer.js): the        *)
(* batching engine behind send / sendNow, its deferred-flush timers, the   *)
(* outgoing HTTPS requests and the whenDone completion of each batch.      *)
(* Node runs every handler to completion, so each action is one handler.   *)
(***************************************************************************)
EXTENDS Integers, Sequences, FiniteSets, TLC

(* ------------------------------ bounds --------------------------------- *)
MaxSubmit == 3
MaxLiveSubmit == 2
MaxTimeSubmit == 3
MaxBatchSize == 2
SmallLimit == 4

(* ------------------------- program constants --------------------------- *)
MaxDatum == 1000001
DefaultSizeLimit == 2000000
MaxOkStatus == 299

(* ------------------------------ inputs --------------------------------- *)
\* typeof-classes of the datum argument: a primitive, null, an object that
\* JSON.stringify serializes.
Kinds == {"number", "null", "object"}
\* length of JSON.stringify(datum) (timestamp included) for kind "object"
SmallJsonLen == 2
JsonLens == {SmallJsonLen, 1000000, 1000001}
\* cbOpt: omitted, a function that returns, a function that throws
Callbacks == {"none", "ok", "throws"}
Statuses == {299, 300}
\* constructor parameters <<batchSize, sizeLimit>>: flush on every queued
\* record under the default size limit, or batch up to MaxBatchSize records
\* under a size limit that one large record or two small ones exceed
Configs == {<<1, DefaultSizeLimit>>, <<MaxBatchSize, SmallLimit>>}

StatusText(code) ==
    CASE code = 200 -> "OK"
      [] code = 299 -> "Unknown"
      [] code = 300 -> "Multiple Choices"
      [] code = 500 -> "Server Error"
      [] OTHER -> ""

(* ------------------------------ values --------------------------------- *)
Val(m, c, t) == [msg |-> m, code |-> c, text |-> t]
Null == Val("null", 0, "")
NoVal == Val("unresolved", 0, "")
MustBeObject == Val("The datum must be an object", 0, "")
MaxSizeMsg == Val("The maximum datum size is 1,000,000 bytes", 0, "")
BadResult(code) == Val("Observe Bad HTTP result", code, StatusText(code))

VARIABLES
    batchSize,   \* #batchSize
    sizeLimit,   \* #sizeLimit
    queue,       \* #queue: ids of the queued items, in push order
    queuesize,   \* #queuesize
    sending,     \* #sending
    timers,      \* armed setTimeout callbacks, oldest first (same delay)
    requests,    \* every request issued so far, in issue order
    items,       \* the queue items ever pushed, by id (push order)
    nsub,        \* number of send/sendNow calls made so far
    last         \* the handler that ran last, what it saw on entry, its result

vars == <<batchSize, sizeLimit, queue, queuesize, sending, timers, requests, items, nsub, last>>

(* ------------------------------ helpers -------------------------------- *)
RECURSIVE SumLen(_)
SumLen(q) == IF q = <<>> THEN 0 ELSE items[Head(q)].enclen + SumLen(Tail(q))

Range(s) == {s[i] : i \in 1..Len(s)}

Pending == {r \in 1..Len(requests) : requests[r].status = 0}

\* result of a call that is not send/sendNow
NoCall == [kind |-> "none", cb |-> "none", enclen |-> 0, threw |-> FALSE,
           accepted |-> FALSE, handle |-> "none", val |-> NoVal, ncb |-> 0]

Snapshot(op, arg, call) ==
    [op |-> op, arg |-> arg, call |-> call, preQueue |-> queue,
     preSize |-> queuesize, preSending |-> sending, preReqs |-> Len(requests)]

\* after a handler that is not a send/sendNow call
Quiet ==
    [op |-> "none", arg |-> 0, call |-> NoCall, preQueue |-> <<>>,
     preSize |-> 0, preSending |-> FALSE, preReqs |-> 0]

(* ------------------------------ #enqueue ------------------------------- *)
\* encdatum = JSON.stringify(datum) + "\n"
EncLen(jlen) == jlen + 1

NotObject(kind) == kind = "number"

\* typeof null is 'object', and datum.timestamp on null is a TypeError
EnqueueThrows(kind) == kind = "null"

TooBig(enclen) == enclen > MaxDatum

PushedFront(q, id) == <<id>> \o q

Pushed(q, id) == Append(q, id)

NewItem(enclen, cb) ==
    [enclen |-> enclen, cb |-> cb, handle |-> "pending", val |-> NoVal,
     nres |-> 0, ncb |-> 0, cbval |-> NoVal]

\* the outcome of #enqueue(datum, cbOpt): what the caller gets (call), the
\* buffer (q), the counter (qs) and the items afterwards
Enqueue(kind, jlen, cb) ==
    LET base == [NoCall EXCEPT !.kind = kind, !.cb = cb]
        id == Len(items) + 1
    IN  IF NotObject(kind)
        THEN [call |-> [base EXCEPT !.handle = "resolved", !.val = MustBeObject],
              q |-> queue, qs |-> queuesize, its |-> items]
        ELSE IF EnqueueThrows(kind)
        THEN [call |-> [base EXCEPT !.threw = TRUE],
              q |-> queue, qs |-> queuesize, its |-> items]
        ELSE IF TooBig(EncLen(jlen))
        THEN [call |-> [base EXCEPT !.enclen = EncLen(jlen), !.handle = "resolved",
                                    !.val = MaxSizeMsg],
              q |-> queue, qs |-> queuesize, its |-> items]
        ELSE [call |-> [base EXCEPT !.enclen = EncLen(jlen), !.accepted = TRUE,
                                    !.handle = "pending"],
              q |-> Pushed(queue, id), qs |-> queuesize + EncLen(jlen),
              its |-> Append(items, NewItem(EncLen(jlen), cb))]

(* ------------------------------ #sendQueue ----------------------------- *)
NotDetached(q) == q

Detached(q) == <<>>

\* by: #sendQueue was called from a submission ("call") or from setTimeout ("timer")
NewRequest(q, qs, by) == [body |-> q, size |-> qs, status |-> 0, by |-> by]

SendQueueKeepsCounter(q, qs, by) ==
    /\ sending' = TRUE
    /\ queue' = Detached(q)
    /\ queuesize' = qs
    /\ requests' = Append(requests, NewRequest(q, qs, by))

\* #sendQueue() run on buffer q with counter qs
SendQueue(q, qs, by) ==
    /\ sending' = TRUE
    /\ queue' = Detached(q)
    /\ queuesize' = 0
    /\ requests' = Append(requests, NewRequest(q, qs, by))

NoSendQueue(q, qs) ==
    /\ queue' = q
    /\ queuesize' = qs
    /\ UNCHANGED <<sending, requests>>

(* ------------------------------ send ----------------------------------- *)
FlushNowUnlessIdle(s, qlen, qs) ==
    \/ qlen >= batchSize
    \/ qs > sizeLimit

FlushNowCountOffByOne(s, qlen, qs) ==
    \/ ~s
    \/ qlen > batchSize
    \/ qs > sizeLimit

FlushNowNoSizeLimit(s, qlen, qs) ==
    \/ ~s
    \/ qlen >= batchSize

FlushNow(s, qlen, qs) ==
    \/ ~s
    \/ qlen >= batchSize
    \/ qs > sizeLimit

NotArmed(ts, id) == ts

Armed(ts, id) == Append(ts, id)

Send(kind, jlen, cb) ==
    /\ nsub' = nsub + 1
    /\ LET e == Enqueue(kind, jlen, cb)
       IN  /\ items' = e.its
           /\ last' = Snapshot("send", nsub + 1, e.call)
           /\ IF e.call.threw
              THEN /\ NoSendQueue(e.q, e.qs)
                   /\ UNCHANGED timers
              ELSE IF FlushNow(sending, Len(e.q), e.qs)
              THEN /\ SendQueue(e.q, e.qs, "call")
                   /\ UNCHANGED timers
              ELSE /\ NoSendQueue(e.q, e.qs)
                   /\ timers' = Armed(timers, IF e.call.accepted THEN Len(e.its) ELSE 0)
    /\ UNCHANGED <<batchSize, sizeLimit>>

(* ------------------------------ sendNow -------------------------------- *)
SendNow(kind, jlen, cb) ==
    /\ nsub' = nsub + 1
    /\ LET e == Enqueue(kind, jlen, cb)
       IN  /\ items' = e.its
           /\ last' = Snapshot("sendNow", nsub + 1, e.call)
           /\ IF e.call.threw
              THEN NoSendQueue(e.q, e.qs)
              ELSE SendQueue(e.q, e.qs, "call")
    /\ UNCHANGED <<batchSize, sizeLimit, timers>>

(* ------------------------- setTimeout callback ------------------------- *)
TimerFireUnlessOne ==
    /\ timers # <<>>
    /\ timers' = Tail(timers)
    /\ last' = Quiet
    /\ IF Len(queue) > 1
       THEN SendQueue(queue, queuesize, "timer")
       ELSE NoSendQueue(queue, queuesize)
    /\ UNCHANGED <<batchSize, sizeLimit, items, nsub>>

TimerFire ==
    /\ timers # <<>>
    /\ timers' = Tail(timers)
    /\ last' = Quiet
    /\ IF Len(queue) > 0
       THEN SendQueue(queue, queuesize, "timer")
       ELSE NoSendQueue(queue, queuesize)
    /\ UNCHANGED <<batchSize, sizeLimit, items, nsub>>

(* ------------------- res.on('close') and whenDone ---------------------- *)
IsFailureOffByOne(code) == code >= MaxOkStatus

IsFailure(code) == code > MaxOkStatus

Outcome(code) == IF IsFailure(code) THEN BadResult(code) ELSE Null

\* without the try/catch a throwing cbOpt would skip resolve(err)
NotifiedUncaught(it, err) ==
    IF it.cb = "throws"
    THEN [it EXCEPT !.ncb = @ + 1, !.cbval = err]
    ELSE [it EXCEPT !.ncb = IF it.cb # "none" THEN @ + 1 ELSE @,
                    !.cbval = IF it.cb # "none" THEN err ELSE @,
                    !.nres = @ + 1,
                    !.handle = "resolved",
                    !.val = IF it.handle = "pending" THEN err ELSE @]

\* queue.forEach in whenDone: cbOpt(err) inside try/catch, then resolve(err)
Notified(it, err) ==
    [it EXCEPT !.ncb = IF it.cb # "none" THEN @ + 1 ELSE @,
               !.cbval = IF it.cb # "none" THEN err ELSE @,
               !.nres = @ + 1,
               !.handle = "resolved",
               !.val = IF it.handle = "pending" THEN err ELSE @]

StillSendingNever(q, s) == FALSE

\* #sending after whenDone has looked at the current buffer q
StillSending(q, s) == IF Len(q) = 0 THEN FALSE ELSE s

Respond(r, code) ==
    /\ r \in Pending
    /\ requests' = [requests EXCEPT ![r].status = code]
    /\ sending' = StillSending(queue, sending)
    /\ items' = [i \in 1..Len(items) |->
                    IF i \in Range(requests[r].body)
                    THEN Notified(items[i], Outcome(code))
                    ELSE items[i]]
    /\ last' = Quiet
    /\ UNCHANGED <<batchSize, sizeLimit, queue, queuesize, timers, nsub>>

Response(r) == \E code \in Statuses : Respond(r, code)

(* ------------------------------ machine -------------------------------- *)
Init ==
    /\ \E c \in Configs : batchSize = c[1] /\ sizeLimit = c[2]
    /\ queue = <<>>
    /\ queuesize = 0
    /\ sending = FALSE
    /\ timers = <<>>
    /\ requests = <<>>
    /\ items = <<>>
    /\ nsub = 0
    /\ last = Quiet

Inputs == {<<k, l>> : k \in {"object"}, l \in JsonLens}
              \cup {<<k, 0>> : k \in Kinds \ {"object"}}

\* cap: the number of submissions explored
DoSend(cap) ==
    /\ nsub < cap
    /\ \E in \in Inputs, cb \in Callbacks : Send(in[1], in[2], cb)

DoSendNow(cap) ==
    /\ nsub < cap
    /\ \E in \in Inputs, cb \in Callbacks : SendNow(in[1], in[2], cb)

DoResponse == \E r \in Pending : Response(r)

Next ==
    \/ DoSend(MaxSubmit)
    \/ DoSendNow(MaxSubmit)
    \/ TimerFire
    \/ DoResponse

Spec == Init /\ [][Next]_vars

LiveNext ==
    \/ DoSend(MaxLiveSubmit)
    \/ DoSendNow(MaxLiveSubmit)
    \/ TimerFire
    \/ DoResponse

\* timers that are armed fire, and the transport finishes every request
LiveSpec ==
    /\ Init
    /\ [][LiveNext]_vars
    /\ WF_vars(TimerFire)
    /\ \A r \in 1..(2 * MaxLiveSubmit) : WF_vars(Response(r))

\* the time-trigger scenario: a new engine that is only given small records
\* through send
DoSendSmall ==
    /\ nsub < MaxTimeSubmit
    /\ \E cb \in Callbacks : Send("object", SmallJsonLen, cb)

TimeNext ==
    \/ DoSendSmall
    \/ TimerFire
    \/ DoResponse

TimeSpec == Init /\ [][TimeNext]_vars

TypeOK ==
    /\ <<batchSize, sizeLimit>> \in Configs
    /\ queuesize \in Nat
    /\ sending \in BOOLEAN
    /\ nsub \in 0..MaxSubmit
    /\ Len(items) <= nsub
    /\ Range(queue) \subseteq 1..Len(items)
    /\ Range(timers) \subseteq 0..Len(items)

(* ============================== properties ============================= *)
BatchesOf(i) == {r \in 1..Len(requests) : i \in Range(requests[r].body)}

Places(b, i) == {k \in 1..Len(b) : b[k] = i}

\* C1: every accepted record is in exactly one place, the buffer or one
\* detached batch, and never twice in it; its handle is resolved at most
\* once and its callback invoked at most once.
C1_OneBatchOneNotification ==
    \A i \in 1..Len(items) :
        /\ Cardinality(BatchesOf(i)) + Cardinality(Places(queue, i)) = 1
        /\ \A r \in BatchesOf(i) : Cardinality(Places(requests[r].body, i)) = 1
        /\ items[i].nres <= 1
        /\ items[i].ncb <= 1

\* two batches were detached while both were outstanding, and both completed
C1_Witness ==
    /\ Len(items) >= 2
    /\ Len(requests) >= 2
    /\ requests[1].body = <<1>>
    /\ requests[2].body = <<2>>
    /\ items[1].nres = 1
    /\ items[2].nres = 1
    /\ items[2].cb = "ok"
    /\ items[2].ncb = 1

\* C2: a handle returned for a rejected record is already resolved, and the
\* handle of every accepted record is eventually resolved.
C2_EveryHandleResolves ==
    /\ [](last.call.handle # "none" /\ ~last.call.accepted
              => last.call.handle = "resolved")
    /\ \A i \in 1..MaxLiveSubmit :
          (i <= Len(items) /\ items[i].handle = "pending")
              ~> (i <= Len(items) /\ items[i].handle = "resolved")

\* a record that was buffered by the last submission ever made was flushed
\* by its timer and resolved
C2_Witness ==
    /\ Len(requests) >= 2
    /\ requests[Len(requests)].by = "timer"
    /\ \A i \in Range(requests[Len(requests)].body) : items[i].handle = "resolved"
    /\ Len(items) \in Range(requests[Len(requests)].body)

\* C3: at most one request is issued and not yet completed.
C3_AtMostOneInFlight == Cardinality(Pending) <= 1

IsCall == last.op \in {"send", "sendNow"}

NewestRequest == requests[Len(requests)]

\* the call just made issued one request
IssuedOne == Len(requests) = last.preReqs + 1

\* the call just made left the buffer and its counter as they were
BufferUntouched == queue = last.preQueue /\ queuesize = last.preSize

\* the call just made detached the buffer as it was, adding nothing to it
FlushedAsWas ==
    /\ IssuedOne
    /\ NewestRequest.body = last.preQueue
    /\ NewestRequest.size = last.preSize
    /\ queue = <<>>
    /\ queuesize = 0

\* C4: a record that is not an object (a number, null) is never put in the
\* buffer and its handle is resolved at once with 'The datum must be an object'.
C4_NonObjectRejected ==
    IsCall /\ last.call.kind \in {"number", "null"} =>
        /\ ~last.call.threw
        /\ ~last.call.accepted
        /\ last.call.handle = "resolved"
        /\ last.call.val = MustBeObject
        /\ BufferUntouched \/ FlushedAsWas

\* C5: a record longer than 1,000,001 with its newline is rejected with the
\* 'maximum datum size' message, buffer and byte counter unchanged; a record
\* of 1,000,001 or less is queued.
C5_RejectedLeavesCounter ==
    IsCall /\ last.call.kind = "object" =>
        IF last.call.enclen > 1000001
        THEN /\ ~last.call.accepted
             /\ last.call.handle = "resolved"
             /\ last.call.val = MaxSizeMsg
             /\ BufferUntouched
        ELSE /\ last.call.accepted
             /\ Len(items) \in Range(queue) \cup Range(NewestRequest.body)

\* C6: no call of send or sendNow throws to its caller.
C6_NeverThrows == IsCall => ~last.call.threw

\* C7: a callback passed to send or sendNow is invoked exactly once, with the
\* value the handle resolves with, whatever the outcome.
C7_CallbackAlwaysCalled ==
    /\ IsCall /\ last.call.cb # "none" /\ last.call.handle = "resolved"
          => last.call.ncb = 1
    /\ \A i \in 1..Len(items) :
          items[i].cb # "none" /\ items[i].handle = "resolved"
              => items[i].ncb = 1 /\ items[i].cbval = items[i].val

\* C8: the items of a batch are resolved by the response to that batch alone:
\* unresolved while it is outstanding, all null for a status of 299 or less,
\* all the same error string with the status code and text above 299.
C8_BatchOutcome ==
    \A r \in 1..Len(requests) : \A i \in Range(requests[r].body) :
        LET st == requests[r].status
        IN  /\ st = 0 => items[i].handle = "pending" /\ items[i].val = NoVal
            /\ st # 0 /\ st <= 299 => items[i].handle = "resolved" /\ items[i].val = Null
            /\ st > 299 =>
                  /\ items[i].handle = "resolved"
                  /\ items[i].val.msg = "Observe Bad HTTP result"
                  /\ items[i].val.code = st
                  /\ items[i].val.text = StatusText(st)

\* a batch of two failed with 300 while another batch succeeded with 299
C8_Witness ==
    \E r1, r2 \in 1..Len(requests) :
        /\ Len(requests[r1].body) = 2
        /\ requests[r1].status = 300
        /\ \A i \in Range(requests[r1].body) : items[i].val = BadResult(300)
        /\ requests[r2].body # <<>>
        /\ requests[r2].status = 299
        /\ \A i \in Range(requests[r2].body) : items[i].val = Null

\* C9: sendNow of a valid record issues, within the call, one request whose
\* body is what was buffered followed by the record, and empties the buffer.
C9_SendNowFlushes ==
    last.op = "sendNow" /\ last.call.accepted =>
        /\ IssuedOne
        /\ NewestRequest.body = last.preQueue \o <<Len(items)>>
        /\ NewestRequest.status = 0
        /\ queue = <<>>
        /\ queuesize = 0

\* sendNow ran while a request was outstanding and a record was buffered
C9_Witness ==
    /\ last.op = "sendNow"
    /\ last.call.accepted
    /\ last.preSending
    /\ last.preQueue # <<>>
    /\ Cardinality(Pending) = 2

\* C10: send of a valid record while idle issues, within the call, a request
\* containing the record and leaves the engine sending, arming no timer.
C10_IdleSendFlushes ==
    last.op = "send" /\ last.call.accepted /\ ~last.preSending =>
        /\ IssuedOne
        /\ Len(items) \in Range(NewestRequest.body)
        /\ NewestRequest.status = 0
        /\ sending
        /\ Len(items) \notin Range(timers)

\* an idle send flushed a record that reaches neither the count nor the
\* size limit, after an earlier batch had completed
C10_Witness ==
    /\ last.op = "send"
    /\ last.call.accepted
    /\ ~last.preSending
    /\ last.preReqs >= 1
    /\ Len(NewestRequest.body) < batchSize
    /\ NewestRequest.size <= sizeLimit

(* ---------------------------- C11 .. C20 ------------------------------- *)
\* C11: while sending, the send that brings the buffer to batchSize records
\* issues exactly one request with all of them in submission order and empties
\* the buffer; a send after which its record is still buffered issued nothing.
C11_CountTrigger ==
    /\ last.op = "send" /\ last.call.accepted /\ last.preSending
          /\ Len(last.preQueue) + 1 = batchSize
          => /\ IssuedOne
             /\ NewestRequest.body = last.preQueue \o <<Len(items)>>
             /\ Len(NewestRequest.body) = batchSize
             /\ \A k \in 1..(batchSize - 1) :
                   NewestRequest.body[k] < NewestRequest.body[k + 1]
             /\ queue = <<>>
             /\ queuesize = 0
    /\ last.op = "send" /\ Len(items) \in Range(queue)
          => /\ Len(requests) = last.preReqs
             /\ Len(queue) < batchSize

\* the second record buffered under batchSize = 2 triggered the flush of both
C11_Witness ==
    /\ last.op = "send"
    /\ last.preSending
    /\ batchSize = 2
    /\ Len(last.preQueue) = 1
    /\ IssuedOne
    /\ Len(NewestRequest.body) = 2

\* the records of the scenario do not reach the count or the size trigger
NoImmediateTrigger ==
    /\ batchSize >= 2
    /\ \A i \in 1..Len(items) : items[i].enclen <= sizeLimit

\* C12 as stated: two small records sent to a new engine, then every armed
\* timer elapsed with no further submission: exactly one request, with both.
C12_OneRequestForBoth ==
    nsub = 2 /\ Len(items) = 2 /\ NoImmediateTrigger /\ timers = <<>>
        => Len(requests) = 1 /\ requests[1].body = <<1, 2>>

\* C12 amended: two small records sent to a new engine, then every armed timer
\* elapsed with no further submission: exactly two requests, the first record
\* alone (issued by its own send) and then the second record alone.
C12_FirstAloneThenSecond ==
    /\ nsub = 2 /\ Len(items) = 2 /\ NoImmediateTrigger /\ timers = <<>>
          => /\ Len(requests) = 2
             /\ requests[1].body = <<1>>
             /\ requests[1].by = "call"
             /\ requests[2].body = <<2>>
             /\ queue = <<>>
    /\ nsub = 2 /\ Len(items) = 2 /\ NoImmediateTrigger /\ timers # <<>>
          => /\ Len(requests) = 1
             /\ requests[1].body = <<1>>
             /\ queue = <<2>>

\* the second record waited in the buffer and was flushed by its timer
C12_Witness ==
    /\ nsub = 2
    /\ NoImmediateTrigger
    /\ timers = <<>>
    /\ Len(requests) = 2
    /\ requests[2].by = "timer"
    /\ requests[2].body = <<2>>

RECURSIVE Bodies(_)
Bodies(rs) == IF rs = <<>> THEN <<>> ELSE Head(rs).body \o Bodies(Tail(rs))

\* C13: the request bodies in issue order, followed by what is still
\* buffered, are the accepted records in submission order.
C13_SubmissionOrder ==
    Bodies(requests) \o queue = [k \in 1..Len(items) |-> k]

\* a batch of one, then a batch of two, all three records in order
C13_Witness ==
    /\ Len(items) = 3
    /\ \E r \in 2..Len(requests) : requests[r].body = <<2, 3>>
    /\ requests[1].body = <<1>>
    /\ queue = <<>>

\* C14: a throwing callback does not keep its own handle, or the handle or
\* callback of any other record of its batch, from getting the batch outcome.
C14_ThrowingCallbackHarmless ==
    \A r \in 1..Len(requests) :
        requests[r].status # 0
            /\ (\E t \in Range(requests[r].body) : items[t].cb = "throws")
        => \A i \in Range(requests[r].body) :
              /\ items[i].handle = "resolved"
              /\ items[i].nres = 1
              /\ items[i].val = (IF requests[r].status > 299
                                 THEN BadResult(requests[r].status) ELSE Null)
              /\ items[i].cb # "none"
                    => items[i].ncb = 1 /\ items[i].cbval = items[i].val

\* in a completed batch of two the first callback threw and the second,
\* a normal callback, was still called
C14_Witness ==
    \E r \in 1..Len(requests) :
        /\ requests[r].status # 0
        /\ Len(requests[r].body) = 2
        /\ items[requests[r].body[1]].cb = "throws"
        /\ items[requests[r].body[1]].handle = "resolved"
        /\ items[requests[r].body[2]].cb = "ok"
        /\ items[requests[r].body[2]].ncb = 1

\* C15: the byte counter is the sum of the serialized lengths of the buffered
\* records, 0 once the buffer is detached, and the size recorded for a request
\* at detach is the sum over its batch.
C15_CounterIsSum ==
    /\ queuesize = SumLen(queue)
    /\ queue = <<>> => queuesize = 0
    /\ \A r \in 1..Len(requests) : requests[r].size = SumLen(requests[r].body)

\* a batch of two records of different lengths was detached, its size their
\* sum, and the counter is back to 0
C15_Witness ==
    /\ queue = <<>>
    /\ queuesize = 0
    /\ \E r \in 1..Len(requests) :
          /\ Len(requests[r].body) = 2
          /\ requests[r].size = 1000004

\* C16: when #sending is false no request is awaiting its response.
C16_IdleMeansNothingInFlight == ~sending => Pending = {}

\* C17: every buffered record has the timer armed at its own submission
\* still pending, so the firing of that timer finds it and detaches it.
C17_BufferedHasTimer == \A i \in Range(queue) : i \in Range(timers)

\* a record waits in the buffer with its timer behind an older timer
C17_Witness ==
    /\ queue # <<>>
    /\ Len(timers) >= 2
    /\ timers[Len(timers)] = queue[Len(queue)]

\* C18: no request with an empty batch is ever issued.
C18_NoEmptyRequest == \A r \in 1..Len(requests) : requests[r].body # <<>>

\* C19: when #sending is false the buffer is empty.
C19_IdleMeansEmptyBuffer == ~sending => queue = <<>> /\ queuesize = 0

\* the engine went back to idle after a batch that had been buffered during
\* an earlier request was flushed by its timer and completed
C19_Witness ==
    /\ ~sending
    /\ Pending = {}
    /\ \E r \in 1..Len(requests) : requests[r].by = "timer"

\* C20: between handlers the buffer holds fewer than batchSize records and at
\* most sizeLimit bytes; a send that flushed had found the counter within the
\* limit, so it exceeded it by less than the record it added.
C20_BufferBounds ==
    /\ batchSize >= 1 => Len(queue) < batchSize
    /\ queuesize <= sizeLimit
    /\ IsCall /\ IssuedOne /\ last.call.accepted
          => /\ last.preSize <= sizeLimit
             /\ NewestRequest.size <= sizeLimit + last.call.enclen

\* a send pushed the counter over the limit and flushed, and later a record
\* is buffered within the limits
C20_Witness ==
    /\ queue # <<>>
    /\ queuesize <= sizeLimit
    /\ \E r \in 1..Len(requests) :
          /\ requests[r].size > sizeLimit
          /\ requests[r].body # <<>>
====
